---- MODULE Spec2Model ----
(***************************************************************************)
(* Model of draw_estimator.py: the housing-draw position estimator.        *)
(*                                                                         *)
(* Four specifications share the module:                                   *)
(*   Spec      the script itself, lines 264-423, one action per step       *)
(*   SpecProb  calculate_probability applied to bounded integer inputs     *)
(*   SpecLoad  load_draw_data applied to bounded draw files                *)
(*   SpecTop   get_top_spelman_drawers applied to bounded rankings         *)
(***************************************************************************)
EXTENDS Integers, Sequences, FiniteSets, TLC

VARIABLES
    \* ---- the script (Spec) ----
    pc,                       \* position in the script
    upperclass_file, rooms_file, spelman_file,
    upperclass_data, rooms_data, spelman_data,
    spelman_capacity, available_singles, top_spelman_puids,
    user_first_name, user_last_name, user_index,
    people_ahead_initial, initial_count,
    early_res_college_puids, pools_entered,
    people_ahead_filtered, removed_res_college_count, removed_spelman_count,
    puids_already_removed, filter_pos,
    final_count, total_removed, probability_single, output_data,
    \* ---- calculate_probability (SpecProb) ----
    p_available, p_position, p_called, p_result,
    \* ---- load_draw_data (SpecLoad) ----
    l_file, l_called, l_result,
    \* ---- get_top_spelman_drawers (SpecTop) ----
    t_data, t_capacity, t_called, t_result

mainVars == <<pc, upperclass_file, rooms_file, spelman_file,
              upperclass_data, rooms_data, spelman_data,
              spelman_capacity, available_singles, top_spelman_puids,
              user_first_name, user_last_name, user_index,
              people_ahead_initial, initial_count,
              early_res_college_puids, pools_entered,
              people_ahead_filtered, removed_res_college_count,
              removed_spelman_count, puids_already_removed, filter_pos,
              final_count, total_removed, probability_single, output_data>>
probVars == <<p_available, p_position, p_called, p_result>>
loadVars == <<l_file, l_called, l_result>>
topVars  == <<t_data, t_capacity, t_called, t_result>>
vars     == <<mainVars, probVars, loadVars, topVars>>

(***************************************************************************)
(* Bounds of the model.                                                    *)
(***************************************************************************)
MaxRows     == 3    \* rows of a primary (Upperclass) file
MaxLoadRows == 3    \* rows of a draw file given to load_draw_data alone
MaxTopRows  == 3    \* records of a ranking given to get_top_spelman_drawers
MaxRooms    == 2    \* rows of the rooms file
MaxPools    == 2    \* paths typed at the residential-college prompt
MaxVal      == 10   \* largest integer given to calculate_probability

(***************************************************************************)
(* Program constants.                                                      *)
(***************************************************************************)
RES_COLLEGE_TOP_N == 50

ROOM_TYPE_MAP(room_type) ==
    CASE room_type = "SINGLE"  -> 1
      [] room_type = "DOUBLE"  -> 2
      [] room_type = "TRIPLE"  -> 3
      [] room_type = "QUAD"    -> 4
      [] room_type = "QUINT"   -> 5
      [] room_type = "6PERSON" -> 6
      [] OTHER                 -> 0      \* ROOM_TYPE_MAP.get(room_type, 0)

None == "None"                            \* Python's None, where a str is expected

(***************************************************************************)
(* str.strip, str.lower, str.upper on the strings the model uses.          *)
(***************************************************************************)
Strip(s) ==
    CASE s = " A "   -> "A"
      [] s = " DEE " -> "DEE"
      [] s = "Doe "  -> "Doe"
      [] OTHER       -> s

Lower(s) ==
    CASE s = "Dee"        -> "dee"
      [] s = "DEE"        -> "dee"
      [] s = "Al"         -> "al"
      [] s = "Doe"        -> "doe"
      [] s = "Upperclass" -> "upperclass"
      [] s = "UPPERCLASS" -> "upperclass"
      [] s = "Butler"     -> "butler"
      [] s = "Spelman"    -> "spelman"
      [] s = "SPELMAN"    -> "spelman"
      [] s = "Scully"     -> "scully"
      [] OTHER            -> s

Upper(s) ==
    CASE s = "Single" -> "SINGLE"
      [] s = "single" -> "SINGLE"
      [] s = "Double" -> "DOUBLE"
      [] s = "Suite"  -> "SUITE"
      [] OTHER        -> s

(***************************************************************************)
(* A draw-time string "04/dd/25 h:mm pp" is the record [d, h, m, p].       *)
(* Strptime is datetime.strptime(s, '%m/%d/%y %I:%M %p'): %I accepts 1..12 *)
(* (12 is hour 0 of its half day), %M 0..59, %p AM or PM in any letter     *)
(* case; anything else raises ValueError.  The value is minutes since the  *)
(* start of the month.                                                     *)
(***************************************************************************)
\* %p is matched ignoring case: the half day a marker names, "" for none
Meridian(p) ==
    CASE p \in {"AM", "Am", "aM", "am"} -> "AM"
      [] p \in {"PM", "Pm", "pM", "pm"} -> "PM"
      [] OTHER                          -> ""

StrptimeOk(s) ==
    /\ s.d \in 1..30
    /\ s.h \in 1..12
    /\ s.m \in 0..59
    /\ Meridian(s.p) # ""

Strptime(s) ==
    ((s.d * 24) + (s.h % 12) + (IF Meridian(s.p) = "PM" THEN 12 ELSE 0)) * 60 + s.m

(***************************************************************************)
(* Python's round() on the exact quotient num/den (den > 0, num >= 0):     *)
(* nearest integer, a tie going to the even neighbour.                     *)
(***************************************************************************)
Round(num, den) ==
    LET q == num \div den
        r == num % den
    IN  IF 2 * r < den THEN q
        ELSE IF 2 * r > den THEN q + 1
        ELSE IF q % 2 = 0 THEN q ELSE q + 1

Max(a, b) == IF a >= b THEN a ELSE b

(***************************************************************************)
(* Line 249 works in binary floating point (53-bit significands, round to  *)
(* nearest even): q = fl(a / r), then p = fl(q * 100), then round(p).      *)
(* When 100a/r is not halfway between two integers it is further from a    *)
(* tie than the two roundings can move it, and round(p) is the rounding    *)
(* of the exact quotient.  When 100a/r = k + 1/2, p is k + 1/2 only if     *)
(* the error of q, times 100, is at most half a unit in the last place of  *)
(* k + 1/2; otherwise p falls on the side of the error of q and round(p)   *)
(* is k or k + 1.                                                          *)
(***************************************************************************)
RECURSIVE Pow2(_)
Pow2(n) == IF n <= 0 THEN 1 ELSE 2 * Pow2(n - 1)

RECURSIVE FloorLog2(_)
FloorLog2(n) == IF n < 2 THEN 0 ELSE 1 + FloorLog2(n \div 2)

\* the number j of doublings that bring a/r (0 < a < r) into [1, 2)
RECURSIVE Doublings(_, _)
Doublings(a, r) == IF a >= r THEN 0 ELSE 1 + Doublings(2 * a, r)

\* (a * 2^n) mod r
RECURSIVE ShiftMod(_, _, _)
ShiftMod(a, n, r) == IF n = 0 THEN a % r ELSE ShiftMod((2 * a) % r, n - 1, r)

\* fl(a / r) - a/r in units of 2^(-j-52) / r, for 0 < a < r
QuotientError(a, r) ==
    LET rem == ShiftMod(a, 52 + Doublings(a, r), r)
    IN  IF 2 * rem < r THEN 0 - rem ELSE r - rem

\* round(fl(fl(a / r) * 100)) where 100a/r = k + 1/2
RoundTie(a, r) ==
    LET k    == ((200 * a) \div r - 1) \div 2
        err  == QuotientError(a, r)
        mag  == IF err < 0 THEN 0 - err ELSE err
        E    == IF k = 0 THEN -1 ELSE FloorLog2(k)
        half == r * Pow2(E + Doublings(a, r) - 1)
    IN  IF 100 * mag <= half
        THEN (IF k % 2 = 0 THEN k ELSE k + 1)      \* p = k + 1/2: tie to even
        ELSE IF err < 0 THEN k ELSE k + 1

\* round((a / r) * 100), lines 249-250, for 0 < a < r
RoundPercent(a, r) ==
    IF (200 * a) % r = 0 /\ ((200 * a) \div r) % 2 = 1
    THEN RoundTie(a, r)
    ELSE Round(100 * a, r)

(***************************************************************************)
(* calculate_probability(available, position), lines 224-250.              *)
(***************************************************************************)
calculate_probability(available, position) ==
    LET rank_among_competitors == position + 1
    IN  IF position < 0 THEN 100
        ELSE IF available <= 0 THEN 0
        ELSE IF available >= rank_among_competitors THEN 100
        ELSE IF available = position THEN 0
        ELSE Max(0, RoundPercent(available, rank_among_competitors))

(***************************************************************************)
(* Files and loaded data.                                                  *)
(*                                                                         *)
(* A CSV file is [exists, cols, rows]: whether the path exists, whether    *)
(* its header has every required column, and its data rows.  A raw row     *)
(* carries n, the number of cells on its line: csv.DictReader gives a row  *)
(* with fewer cells than the header the value None for the missing ones,   *)
(* and a row with more cells the key None for the surplus.                 *)
(* What a loader returns is [loaded, rows]; loaded = FALSE is None.        *)
(***************************************************************************)
NCols == 4                   \* columns of the header of either kind of file

NoData == [loaded |-> FALSE, rows |-> <<>>]
Data(rows) == [loaded |-> TRUE, rows |-> rows]

\* `not data` for a loader's result: None or the empty list
Falsy(data) == ~data.loaded \/ data.rows = <<>>

\* line 71: {k.strip(): v.strip() for k, v in row.items()} raises
\* AttributeError on a None key or a None value
StripRaises(row) == row.n # NCols

\* lines 71-73: the dict appended for input row i (zero-based)
DrawRecord(row, i) ==
    [PUID        |-> Strip(row.PUID),
     DrawTime    |-> row.DrawTime,
     LastName    |-> Strip(row.LastName),
     FirstName   |-> Strip(row.FirstName),
     DrawTimeObj |-> Strptime(row.DrawTime),
     OriginalRow |-> i]

\* lines 69-79: the rows appended to data, in input order; a row whose
\* draw time does not parse is skipped (ValueError)
RECURSIVE ReadDrawRows(_, _)
ReadDrawRows(rows, i) ==
    IF i > Len(rows) THEN <<>>
    ELSE (IF StrptimeOk(rows[i].DrawTime)
          THEN <<DrawRecord(rows[i], i - 1)>>
          ELSE <<>>) \o ReadDrawRows(rows, i + 1)

\* a sort key that forgets the draw time
KeyLessByRowOnly(a, b) == a.OriginalRow < b.OriginalRow

\* line 84: the sort key (Draw Time Obj, Original Row), compared as tuples
KeyLess(a, b) ==
    \/ a.DrawTimeObj < b.DrawTimeObj
    \/ (a.DrawTimeObj = b.DrawTimeObj /\ a.OriginalRow < b.OriginalRow)

\* line 84: list.sort is stable: x goes after every element not above it
RECURSIVE InsertByKey(_, _)
InsertByKey(sorted, x) ==
    IF sorted = <<>> THEN <<x>>
    ELSE IF KeyLess(x, Head(sorted)) THEN <<x>> \o sorted
    ELSE <<Head(sorted)>> \o InsertByKey(Tail(sorted), x)

RECURSIVE SortByKey(_)
SortByKey(data) ==
    IF data = <<>> THEN <<>>
    ELSE InsertByKey(SortByKey(SubSeq(data, 1, Len(data) - 1)), data[Len(data)])

\* load_draw_data, lines 51-85
load_draw_data(file) ==
    IF ~file.exists THEN NoData                                 \* line 57
    ELSE IF ~file.cols THEN NoData                              \* line 65
    ELSE IF \E i \in 1..Len(file.rows) : StripRaises(file.rows[i])
         THEN NoData                                            \* line 80
    ELSE Data(SortByKey(ReadDrawRows(file.rows, 1)))

\* lines 105-106: the dict appended for a rooms row
RoomRecord(row) ==
    [College |-> Strip(row.College), Dorm |-> Strip(row.Dorm),
     Room    |-> Strip(row.Room),    Type |-> Strip(row.Type)]

\* load_rooms_data, lines 87-110
load_rooms_data(file) ==
    IF ~file.exists THEN NoData                                 \* line 93
    ELSE IF ~file.cols THEN NoData                              \* line 101
    ELSE IF \E i \in 1..Len(file.rows) : StripRaises(file.rows[i])
         THEN NoData                                            \* line 107
    ELSE Data([i \in 1..Len(file.rows) |-> RoomRecord(file.rows[i])])

\* lines 123-137: the two sums over the rooms
RECURSIVE SumSpelman(_, _)
SumSpelman(rooms, i) ==
    IF i > Len(rooms) THEN 0
    ELSE (IF Lower(rooms[i].College) = "upperclass"
             /\ Lower(rooms[i].Dorm) = "spelman"
          THEN ROOM_TYPE_MAP(Upper(rooms[i].Type)) ELSE 0)
         + SumSpelman(rooms, i + 1)

RECURSIVE CountSingles(_, _)
CountSingles(rooms, i) ==
    IF i > Len(rooms) THEN 0
    ELSE (IF Lower(rooms[i].College) = "upperclass"
             /\ Upper(rooms[i].Type) = "SINGLE"
          THEN 1 ELSE 0)
         + CountSingles(rooms, i + 1)

\* calculate_room_stats, lines 112-141: <<spelman_capacity, singles>>
calculate_room_stats(data) ==
    IF Falsy(data) THEN <<0, 0>>
    ELSE <<SumSpelman(data.rows, 1), CountSingles(data.rows, 1)>>

\* lines 153-163: PUIDs of the first `limit` records that have a PUID
RECURSIVE TopPuids(_, _, _, _, _)
TopPuids(data, i, count, limit, puids) ==
    IF i > Len(data) THEN puids
    ELSE IF count < limit
         THEN IF data[i].PUID # ""
              THEN TopPuids(data, i + 1, count + 1, limit,
                            puids \cup {data[i].PUID})
              ELSE TopPuids(data, i + 1, count, limit, puids)
         ELSE puids

\* get_top_spelman_drawers, lines 143-165
get_top_spelman_drawers(data, capacity) ==
    IF Falsy(data) THEN {}
    ELSE IF capacity <= 0 THEN {}
    ELSE TopPuids(data.rows, 1, 0, capacity, {})

\* lines 205-219: what one residential-college file adds to the early set
RECURSIVE CollegePuids(_, _, _, _, _)
CollegePuids(data, i, count, top_n, puids) ==
    IF i > Len(data) THEN puids
    ELSE IF count < top_n
         THEN IF data[i].PUID # ""
              THEN CollegePuids(data, i + 1, count + 1, top_n,
                                puids \cup {data[i].PUID})
              ELSE CollegePuids(data, i + 1, count, top_n, puids)
         ELSE puids

CollegeEarlyDrawers(college_data, top_n) ==
    IF Falsy(college_data) THEN {}
    ELSE CollegePuids(college_data.rows, 1, 0, top_n, {})

\* a lookup that forgets the last name
MatchesFirstOnly(person, first_name, last_name) ==
    Lower(person.FirstName) = Lower(first_name)

\* lines 172-173: the comparison of find_user_position
Matches(person, first_name, last_name) ==
    /\ Lower(person.FirstName) = Lower(first_name)
    /\ Lower(person.LastName) = Lower(last_name)

\* find_user_position, lines 167-175: zero-based index of the first match, or -1
find_user_position(data, first_name, last_name) ==
    LET hits == {i \in 1..Len(data) : Matches(data[i], first_name, last_name)}
    IN  IF hits = {} THEN -1
        ELSE (CHOOSE i \in hits : \A j \in hits : i <= j) - 1

(***************************************************************************)
(* Inputs.                                                                 *)
(***************************************************************************)
SeqsUpTo(S, n) == UNION {[1..k -> S] : k \in 0..n}

File(rows)  == [exists |-> TRUE,  cols |-> TRUE,  rows |-> rows]
MissingFile == [exists |-> FALSE, cols |-> FALSE, rows |-> <<>>]
BadHeader   == [exists |-> TRUE,  cols |-> FALSE, rows |-> <<>>]

\* "04/01/25 12:30 AM", "04/01/25 1:00 AM", and "04/01/25 0:05 AM",
\* which %I rejects
T1230AM == [d |-> 1, h |-> 12, m |-> 30, p |-> "AM"]
T0100AM == [d |-> 1, h |-> 1,  m |-> 0,  p |-> "AM"]
TBad    == [d |-> 1, h |-> 0,  m |-> 5,  p |-> "AM"]
\* "04/01/25 12:15 pm": %p ignores case
T1215pm == [d |-> 1, h |-> 12, m |-> 15, p |-> "pm"]

RawRow(n, puid, time, last, first) ==
    [n |-> n, PUID |-> puid, DrawTime |-> time,
     LastName |-> last, FirstName |-> first]

(***************************************************************************)
(* The idle values of each group of variables: a specification leaves the  *)
(* groups of the other specifications at these values.                     *)
(***************************************************************************)
NoOutput == [written |-> FALSE]

MainInit ==
    /\ pc = "find_files"
    /\ upperclass_file = None /\ rooms_file = None /\ spelman_file = None
    /\ upperclass_data = NoData /\ rooms_data = NoData /\ spelman_data = NoData
    /\ spelman_capacity = 0 /\ available_singles = 0
    /\ top_spelman_puids = {}
    /\ user_first_name = "" /\ user_last_name = "" /\ user_index = -1
    /\ people_ahead_initial = <<>> /\ initial_count = 0
    /\ early_res_college_puids = {} /\ pools_entered = 0
    /\ people_ahead_filtered = <<>>
    /\ removed_res_college_count = 0 /\ removed_spelman_count = 0
    /\ puids_already_removed = {} /\ filter_pos = 0
    /\ final_count = 0 /\ total_removed = 0 /\ probability_single = 0
    /\ output_data = NoOutput

ProbIdle == p_available = 0 /\ p_position = 0 /\ p_called = FALSE /\ p_result = 0
LoadIdle == l_file = MissingFile /\ l_called = FALSE /\ l_result = NoData
TopIdle  == t_data = NoData /\ t_capacity = 0 /\ t_called = FALSE /\ t_result = {}

(***************************************************************************)
(* SpecProb: calculate_probability on every pair of bounded integers.      *)
(***************************************************************************)
\* pairs beyond the bound whose exact percentage is a tie: line 249's
\* floating point falls below 57.5 (23/40, 46/80), rises above 54.5
\* (109/200) and keeps 52.5 (21/40)
TiePairs == {<<23, 39>>, <<46, 79>>, <<109, 199>>, <<21, 39>>}

ProbInit ==
    /\ \E pair \in ((-2..MaxVal) \X (-2..MaxVal)) \cup TiePairs :
          /\ p_available = pair[1]
          /\ p_position = pair[2]
    /\ p_called = FALSE
    /\ p_result = 0
    /\ MainInit /\ LoadIdle /\ TopIdle

CallProbability ==
    /\ ~p_called
    /\ p_called' = TRUE
    /\ p_result' = calculate_probability(p_available, p_position)
    /\ UNCHANGED <<p_available, p_position, mainVars, loadVars, topVars>>

SpecProb == ProbInit /\ [][CallProbability]_vars

(***************************************************************************)
(* SpecLoad: load_draw_data on every bounded draw file.                    *)
(***************************************************************************)
LoadRows ==
    {RawRow(n, puid, time, "Doe ", "Al") :
        n \in {NCols - 1, NCols, NCols + 1},
        puid \in {"", " A "},
        time \in {T1230AM, T0100AM, T1215pm, TBad}}

LoadInit ==
    /\ l_file \in {MissingFile, BadHeader}
                  \cup {File(rows) : rows \in SeqsUpTo(LoadRows, MaxLoadRows)}
    /\ l_called = FALSE
    /\ l_result = NoData
    /\ MainInit /\ ProbIdle /\ TopIdle

CallLoad ==
    /\ ~l_called
    /\ l_called' = TRUE
    /\ l_result' = load_draw_data(l_file)
    /\ UNCHANGED <<l_file, mainVars, probVars, topVars>>

SpecLoad == LoadInit /\ [][CallLoad]_vars

(***************************************************************************)
(* SpecTop: get_top_spelman_drawers on every bounded ranking and capacity. *)
(***************************************************************************)
\* the ranking whose i-th record has identity puids[i]
Ranking(puids) ==
    [i \in 1..Len(puids) |->
        DrawRecord(RawRow(NCols, puids[i], T0100AM, "Doe", "Al"), i - 1)]

TopInit ==
    /\ t_data \in {NoData}
                  \cup {Data(Ranking(ps)) : ps \in SeqsUpTo({"", "A", "B"}, MaxTopRows)}
    /\ t_capacity \in -1..(MaxTopRows + 1)
    /\ t_called = FALSE
    /\ t_result = {}
    /\ MainInit /\ ProbIdle /\ LoadIdle

CallTop ==
    /\ ~t_called
    /\ t_called' = TRUE
    /\ t_result' = get_top_spelman_drawers(t_data, t_capacity)
    /\ UNCHANGED <<t_data, t_capacity, mainVars, probVars, loadVars>>

SpecTop == TopInit /\ [][CallTop]_vars

(***************************************************************************)
(* Spec: the script, lines 264-423.                                        *)
(***************************************************************************)
UPPERCLASS_PATH == "UpperclassTimeOrder.csv"
ROOMS_PATH      == "AvailableRoomsList.csv"
SPELMAN_PATH    == "SpelmanTimeOrder.csv"
NCW_PATH        == "NCWTimeOrder.csv"

TimeAt(h) == [d |-> 1, h |-> h, m |-> 0, p |-> "AM"]

\* The end-to-end scenario: primary A,B,C,D,E in time order with target D,
\* Spelman ranking [A,F] and one other college ranked [B,G].
ScenarioPrimary ==
    File(<<RawRow(NCols, "A", TimeAt(1), "Doe", "Al"),
           RawRow(NCols, "B", TimeAt(2), "Doe", "Al"),
           RawRow(NCols, "C", TimeAt(3), "Doe", "Al"),
           RawRow(NCols, "D", TimeAt(4), "Doe", "Dee"),
           RawRow(NCols, "E", TimeAt(5), "Doe", "Al")>>)
ScenarioSpelman ==
    File(<<RawRow(NCols, "A", TimeAt(1), "Doe", "Al"),
           RawRow(NCols, "F", TimeAt(2), "Doe", "Al")>>)
ScenarioCollege ==
    File(<<RawRow(NCols, "B", TimeAt(1), "Doe", "Al"),
           RawRow(NCols, "G", TimeAt(2), "Doe", "Al")>>)

RoomRow(n, college, dorm, type) ==
    [n |-> n, College |-> college, Dorm |-> dorm, Room |-> "101", Type |-> type]

PrimaryRows ==
    {RawRow(NCols, "",  T0100AM, "Doe",  "Al"),
     RawRow(NCols, "A", T0100AM, "Doe",  "Al"),
     RawRow(NCols, "B", T0100AM, "Doe",  "Al"),
     RawRow(NCols, "A", T1230AM, "Doe",  "Al"),
     RawRow(NCols, "D", T0100AM, "Doe ", "Dee")}

RoomRows ==
    {RoomRow(NCols, "Upperclass", "Spelman", "Single"),
     RoomRow(NCols, "UPPERCLASS", "Scully",  "SINGLE")}

\* the primary file: missing, without its columns, the scenario, or any
\* rows up to the bound
UpperclassFiles ==
    {MissingFile, BadHeader, ScenarioPrimary}
        \cup {File(rows) : rows \in SeqsUpTo(PrimaryRows, MaxRows)}

\* the Spelman file: missing, without its columns, [A,F], or a first
\* record without PUID followed by A
SpelmanFiles ==
    {MissingFile, BadHeader, ScenarioSpelman,
     File(<<RawRow(NCols, "",  TimeAt(1), "Doe", "Al"),
            RawRow(NCols, "A", TimeAt(2), "Doe", "Al")>>)}

\* the rooms file: missing, without its columns, with a short row, one
\* Spelman double, or any rows up to the bound
RoomsFiles ==
    {MissingFile, BadHeader,
     File(<<RoomRow(NCols - 1, "Upperclass", "Spelman", "SINGLE")>>),
     File(<<RoomRow(NCols, "Upperclass", "SPELMAN", "Double")>>)}
        \cup {File(rows) : rows \in SeqsUpTo(RoomRows, MaxRooms)}

\* another college's file: missing, [B,G], or [A]
CollegeFiles ==
    {MissingFile, ScenarioCollege,
     File(<<RawRow(NCols, "A", TimeAt(1), "Doe", "Al")>>)}

FirstNamesTyped == {" DEE ", "zed"}
LastNamesTyped  == {"doe", "roe"}

\* lines 266-281, every pattern matched: the script goes on to load
FindFiles ==
    /\ pc = "find_files"
    /\ upperclass_file' = UPPERCLASS_PATH
    /\ rooms_file' = ROOMS_PATH
    /\ spelman_file' = SPELMAN_PATH
    /\ pc' = "load"
    /\ UNCHANGED <<upperclass_data, rooms_data, spelman_data,
                   spelman_capacity, available_singles, top_spelman_puids,
                   user_first_name, user_last_name, user_index,
                   people_ahead_initial, initial_count,
                   early_res_college_puids, pools_entered,
                   people_ahead_filtered, removed_res_college_count,
                   removed_spelman_count, puids_already_removed, filter_pos,
                   final_count, total_removed, probability_single, output_data,
                   probVars, loadVars, topVars>>

\* lines 266-276, find_csv_file returned None for a pattern: exit(1)
FindFilesFails ==
    /\ pc = "find_files"
    /\ \E u \in {UPPERCLASS_PATH, None}, r \in {ROOMS_PATH, None},
          s \in {SPELMAN_PATH, None} :
         /\ None \in {u, r, s}              \* not all([...])
         /\ upperclass_file' = u
         /\ rooms_file' = r
         /\ spelman_file' = s
    /\ pc' = "exit_1"
    /\ UNCHANGED <<upperclass_data, rooms_data, spelman_data,
                   spelman_capacity, available_singles, top_spelman_puids,
                   user_first_name, user_last_name, user_index,
                   people_ahead_initial, initial_count,
                   early_res_college_puids, pools_entered,
                   people_ahead_filtered, removed_res_college_count,
                   removed_spelman_count, puids_already_removed, filter_pos,
                   final_count, total_removed, probability_single, output_data,
                   probVars, loadVars, topVars>>

\* lines 284-286, the primary ranking is None or empty: exit
LoadPrimaryFails ==
    /\ pc = "load"
    /\ \E uf \in UpperclassFiles :
         /\ Falsy(load_draw_data(uf))
         /\ upperclass_data' = load_draw_data(uf)
    /\ pc' = "exit_critical"
    /\ UNCHANGED <<upperclass_file, rooms_file, spelman_file,
                   rooms_data, spelman_data,
                   spelman_capacity, available_singles, top_spelman_puids,
                   user_first_name, user_last_name, user_index,
                   people_ahead_initial, initial_count,
                   early_res_college_puids, pools_entered,
                   people_ahead_filtered, removed_res_college_count,
                   removed_spelman_count, puids_already_removed, filter_pos,
                   final_count, total_removed, probability_single, output_data,
                   probVars, loadVars, topVars>>

\* lines 284-303: load the three sources, room stats, top Spelman drawers
LoadData ==
    /\ pc = "load"
    /\ \E uf \in UpperclassFiles, rf \in RoomsFiles, sf \in SpelmanFiles :
         LET stats == calculate_room_stats(load_rooms_data(rf))
         IN  /\ ~Falsy(load_draw_data(uf))
             /\ upperclass_data' = load_draw_data(uf)
             /\ rooms_data' = load_rooms_data(rf)
             /\ spelman_data' = load_draw_data(sf)
             /\ spelman_capacity' = stats[1]
             /\ available_singles' = stats[2]
             /\ top_spelman_puids' =
                    get_top_spelman_drawers(load_draw_data(sf), stats[1])
    /\ pc' = "input"
    /\ UNCHANGED <<upperclass_file, rooms_file, spelman_file,
                   user_first_name, user_last_name, user_index,
                   people_ahead_initial, initial_count,
                   early_res_college_puids, pools_entered,
                   people_ahead_filtered, removed_res_college_count,
                   removed_spelman_count, puids_already_removed, filter_pos,
                   final_count, total_removed, probability_single, output_data,
                   probVars, loadVars, topVars>>

\* lines 306-313: read the name, look the user up, exit when not found
FindUser ==
    /\ pc = "input"
    /\ \E first \in FirstNamesTyped, last \in LastNamesTyped :
         /\ user_first_name' = Strip(first)
         /\ user_last_name' = Strip(last)
         /\ user_index' = find_user_position(upperclass_data.rows,
                                             Strip(first), Strip(last))
    /\ pc' = IF user_index' = -1 THEN "exit_not_found" ELSE "initial"
    /\ UNCHANGED <<upperclass_file, rooms_file, spelman_file,
                   upperclass_data, rooms_data, spelman_data,
                   spelman_capacity, available_singles, top_spelman_puids,
                   people_ahead_initial, initial_count,
                   early_res_college_puids, pools_entered,
                   people_ahead_filtered, removed_res_college_count,
                   removed_spelman_count, puids_already_removed, filter_pos,
                   final_count, total_removed, probability_single, output_data,
                   probVars, loadVars, topVars>>

\* lines 325-335: the people ahead; with nobody ahead the counts are zero
InitialAnalysis ==
    /\ pc = "initial"
    /\ people_ahead_initial' = SubSeq(upperclass_data.rows, 1, user_index)
    /\ initial_count' = user_index
    /\ IF user_index = 0
       THEN /\ final_count' = 0
            /\ removed_spelman_count' = 0
            /\ removed_res_college_count' = 0
            /\ total_removed' = 0
            /\ pc' = "final"
       ELSE /\ pc' = "colleges"
            /\ UNCHANGED <<final_count, removed_spelman_count,
                           removed_res_college_count, total_removed>>
    /\ UNCHANGED <<upperclass_file, rooms_file, spelman_file,
                   upperclass_data, rooms_data, spelman_data,
                   spelman_capacity, available_singles, top_spelman_puids,
                   user_first_name, user_last_name, user_index,
                   early_res_college_puids, pools_entered,
                   people_ahead_filtered, puids_already_removed, filter_pos,
                   probability_single, output_data,
                   probVars, loadVars, topVars>>

\* lines 188-219, one path typed at the prompt: the Spelman path is
\* skipped, any other file adds its top RES_COLLEGE_TOP_N identities
AddCollege ==
    /\ pc = "colleges"
    /\ pools_entered < MaxPools
    /\ \E path \in {SPELMAN_PATH, NCW_PATH}, file \in CollegeFiles :
         early_res_college_puids' =
            IF path = spelman_file
            THEN early_res_college_puids
            ELSE early_res_college_puids
                   \cup CollegeEarlyDrawers(load_draw_data(file), RES_COLLEGE_TOP_N)
    /\ pools_entered' = pools_entered + 1
    /\ UNCHANGED <<pc, upperclass_file, rooms_file, spelman_file,
                   upperclass_data, rooms_data, spelman_data,
                   spelman_capacity, available_singles, top_spelman_puids,
                   user_first_name, user_last_name, user_index,
                   people_ahead_initial, initial_count,
                   people_ahead_filtered, removed_res_college_count,
                   removed_spelman_count, puids_already_removed, filter_pos,
                   final_count, total_removed, probability_single, output_data,
                   probVars, loadVars, topVars>>

\* lines 190-191 and 339-346: the empty entry ends the prompt; the
\* filter starts with empty list, zero tallies and an empty removed set
FinishColleges ==
    /\ pc = "colleges"
    /\ people_ahead_filtered' = <<>>
    /\ removed_res_college_count' = 0
    /\ removed_spelman_count' = 0
    /\ puids_already_removed' = {}
    /\ filter_pos' = 0
    /\ pc' = "filter"
    /\ UNCHANGED <<upperclass_file, rooms_file, spelman_file,
                   upperclass_data, rooms_data, spelman_data,
                   spelman_capacity, available_singles, top_spelman_puids,
                   user_first_name, user_last_name, user_index,
                   people_ahead_initial, initial_count,
                   early_res_college_puids, pools_entered,
                   final_count, total_removed, probability_single, output_data,
                   probVars, loadVars, topVars>>

\* the filter with the Spelman tally counting every record
FilterPersonCountsRecords(person, top, early, st) ==
    IF person.PUID = ""
    THEN [st EXCEPT !.filtered = Append(@, person)]
    ELSE IF person.PUID \in top
    THEN [st EXCEPT !.spelman = @ + 1, !.already = @ \cup {person.PUID}]
    ELSE IF person.PUID \in early
    THEN IF person.PUID \notin st.already
         THEN [st EXCEPT !.res = @ + 1, !.already = @ \cup {person.PUID}]
         ELSE st
    ELSE [st EXCEPT !.filtered = Append(@, person)]

\* the filter with `removed = True` missing from the other-college branch
FilterPersonKeepsCollege(person, top, early, st) ==
    IF person.PUID = ""
    THEN [st EXCEPT !.filtered = Append(@, person)]
    ELSE IF person.PUID \in top
    THEN IF person.PUID \notin st.already
         THEN [st EXCEPT !.spelman = @ + 1, !.already = @ \cup {person.PUID}]
         ELSE st
    ELSE IF person.PUID \in early
    THEN IF person.PUID \notin st.already
         THEN [st EXCEPT !.res = @ + 1, !.already = @ \cup {person.PUID},
                         !.filtered = Append(@, person)]
         ELSE [st EXCEPT !.filtered = Append(@, person)]
    ELSE [st EXCEPT !.filtered = Append(@, person)]

\* lines 351-373, the body of the filter loop for one person ahead;
\* st is [filtered, res, spelman, already]
FilterPerson(person, top, early, st) ==
    IF person.PUID = ""                                   \* not puid: keep
    THEN [st EXCEPT !.filtered = Append(@, person)]
    ELSE IF person.PUID \in top                           \* Spelman first
    THEN IF person.PUID \notin st.already
         THEN [st EXCEPT !.spelman = @ + 1, !.already = @ \cup {person.PUID}]
         ELSE st
    ELSE IF person.PUID \in early                         \* elif
    THEN IF person.PUID \notin st.already
         THEN [st EXCEPT !.res = @ + 1, !.already = @ \cup {person.PUID}]
         ELSE st
    ELSE [st EXCEPT !.filtered = Append(@, person)]       \* not removed

\* lines 350-373: one iteration of the filter loop
FilterStep ==
    /\ pc = "filter"
    /\ filter_pos < initial_count
    /\ LET st == FilterPerson(people_ahead_initial[filter_pos + 1],
                              top_spelman_puids, early_res_college_puids,
                              [filtered |-> people_ahead_filtered,
                               res      |-> removed_res_college_count,
                               spelman  |-> removed_spelman_count,
                               already  |-> puids_already_removed])
       IN  /\ people_ahead_filtered' = st.filtered
           /\ removed_res_college_count' = st.res
           /\ removed_spelman_count' = st.spelman
           /\ puids_already_removed' = st.already
    /\ filter_pos' = filter_pos + 1
    /\ UNCHANGED <<pc, upperclass_file, rooms_file, spelman_file,
                   upperclass_data, rooms_data, spelman_data,
                   spelman_capacity, available_singles, top_spelman_puids,
                   user_first_name, user_last_name, user_index,
                   people_ahead_initial, initial_count,
                   early_res_college_puids, pools_entered,
                   final_count, total_removed, probability_single, output_data,
                   probVars, loadVars, topVars>>

\* lines 375-376: after the loop
FilterDone ==
    /\ pc = "filter"
    /\ filter_pos = initial_count
    /\ final_count' = Len(people_ahead_filtered)
    /\ total_removed' = removed_spelman_count + removed_res_college_count
    /\ pc' = "final"
    /\ UNCHANGED <<upperclass_file, rooms_file, spelman_file,
                   upperclass_data, rooms_data, spelman_data,
                   spelman_capacity, available_singles, top_spelman_puids,
                   user_first_name, user_last_name, user_index,
                   people_ahead_initial, initial_count,
                   early_res_college_puids, pools_entered,
                   people_ahead_filtered, removed_res_college_count,
                   removed_spelman_count, puids_already_removed, filter_pos,
                   probability_single, output_data,
                   probVars, loadVars, topVars>>

\* lines 395-411: the result record (lastUpdated, the clock, left out)
OutputData(written, prob) ==
    LET user_info == upperclass_data.rows[user_index + 1]
    IN  [written                  |-> written,
         userName                 |-> <<user_info.FirstName, user_info.LastName>>,
         puid                     |-> user_info.PUID,
         drawTime                 |-> user_info.DrawTime,
         rawPosition              |-> user_index + 1,
         initialAhead             |-> initial_count,
         removedSpelman           |-> removed_spelman_count,
         spelmanCapacity          |-> spelman_capacity,
         removedOtherRes          |-> removed_res_college_count,
         otherResTopN             |-> RES_COLLEGE_TOP_N,
         totalRemoved             |-> total_removed,
         finalPositionEstimate    |-> final_count,
         userRankAmongCompetitors |-> final_count + 1,
         availableSingles         |-> available_singles,
         probabilitySingle        |-> prob]

\* lines 379-423: the probability, the result record, the write (which
\* may fail: the except branch reports it and the script finishes)
Final ==
    /\ pc = "final"
    /\ probability_single' = calculate_probability(available_singles, final_count + 1)
    /\ \E written \in BOOLEAN :
         output_data' = OutputData(written, probability_single')
    /\ pc' = "done"
    /\ UNCHANGED <<upperclass_file, rooms_file, spelman_file,
                   upperclass_data, rooms_data, spelman_data,
                   spelman_capacity, available_singles, top_spelman_puids,
                   user_first_name, user_last_name, user_index,
                   people_ahead_initial, initial_count,
                   early_res_college_puids, pools_entered,
                   people_ahead_filtered, removed_res_college_count,
                   removed_spelman_count, puids_already_removed, filter_pos,
                   final_count, total_removed,
                   probVars, loadVars, topVars>>

Init == MainInit /\ ProbIdle /\ LoadIdle /\ TopIdle

Next ==
    \/ FindFiles
    \/ FindFilesFails
    \/ LoadPrimaryFails
    \/ LoadData
    \/ FindUser
    \/ InitialAnalysis
    \/ AddCollege
    \/ FinishColleges
    \/ FilterStep
    \/ FilterDone
    \/ Final

Spec == Init /\ [][Next]_vars

(***************************************************************************)
(* Properties of calculate_probability.                                    *)
(***************************************************************************)
\* the Probability Model as the specification words it
ClaimedProbability(available, rank) ==
    IF available <= 0 THEN 0
    ELSE IF rank <= 0 THEN 100
    ELSE IF available >= rank THEN 100
    ELSE Round(100 * available, rank)

\* C1: calculate_probability(available, rank) is 0 when available <= 0,
\* else 100 when rank <= 0, else 100 when available >= rank, else
\* round(100 * available / rank).
C1_ProbabilityModel ==
    p_called => p_result = ClaimedProbability(p_available, p_position)

\* C10: over non-negative inputs the percentage never decreases when the
\* available count grows and never increases when the second argument grows.
C10_Monotone ==
    (p_called /\ p_available >= 0 /\ p_position >= 0) =>
        /\ calculate_probability(p_available + 1, p_position) >= p_result
        /\ calculate_probability(p_available, p_position + 1) <= p_result

(***************************************************************************)
(* Properties of load_draw_data.                                           *)
(***************************************************************************)
WellFormed(row) == row.n = NCols /\ StrptimeOk(row.DrawTime)

\* C7: one malformed row (draw time that does not parse, or a field absent
\* from the row) is dropped and the well-formed rows are still returned:
\* a file that exists with its columns never yields None.
C7_BadRowNotFatal ==
    (l_called /\ l_file.exists /\ l_file.cols) =>
        /\ l_result.loaded
        /\ {l_result.rows[k].OriginalRow : k \in 1..Len(l_result.rows)}
             = {i - 1 : i \in {j \in 1..Len(l_file.rows) : WellFormed(l_file.rows[j])}}

\* C8: the returned ranking is a permutation of the loaded rows in the
\* order of draw time ascending, equal draw times by origin index ascending.
C8_RankingOrdered ==
    (l_called /\ l_result.loaded) =>
        LET out    == l_result.rows
            parsed == {i \in 1..Len(l_file.rows) : StrptimeOk(l_file.rows[i].DrawTime)}
        IN  /\ \A k \in 1..(Len(out) - 1) :
                 \/ out[k].DrawTimeObj < out[k + 1].DrawTimeObj
                 \/ /\ out[k].DrawTimeObj = out[k + 1].DrawTimeObj
                    /\ out[k].OriginalRow < out[k + 1].OriginalRow
            /\ {out[k] : k \in 1..Len(out)}
                 = {DrawRecord(l_file.rows[i], i - 1) : i \in parsed}
            /\ Len(out) = Cardinality(parsed)

\* a ranking in which the sort moved a row forward and broke a tie
C8_Witness ==
    /\ l_called /\ l_result.loaded
    /\ \E k \in 1..(Len(l_result.rows) - 1) :
         l_result.rows[k].OriginalRow > l_result.rows[k + 1].OriginalRow
    /\ \E k \in 1..(Len(l_result.rows) - 1) :
         l_result.rows[k].DrawTimeObj = l_result.rows[k + 1].DrawTimeObj

(***************************************************************************)
(* Properties of get_top_spelman_drawers.                                  *)
(***************************************************************************)
\* the identities carried by the first K records of a ranking
FirstKIdentities(rows, K) ==
    {rows[i].PUID : i \in {j \in 1..Len(rows) : j <= K}} \ {""}

\* C9: the result is exactly the set of identities of the first K records:
\* at most K of them, and none that only a record after position K carries.
C9_FirstKRecords ==
    t_called =>
        /\ t_result = FirstKIdentities(t_data.rows, t_capacity)
        /\ Cardinality(t_result) <= Max(t_capacity, 0)

(***************************************************************************)
(* Properties of the script.                                               *)
(***************************************************************************)
\* the run of the end-to-end scenario: target D behind A, B, C, with
\* Spelman claimants {A}, other-college claimants {B,G}, two singles
Scenario ==
    /\ upperclass_data = load_draw_data(ScenarioPrimary)
    /\ user_index = 3
    /\ top_spelman_puids = {"A"}
    /\ early_res_college_puids = {"B", "G"}
    /\ available_singles = 2

\* C2: the reported probability is the Probability Model at the available
\* singles and rank = filtered-ahead + 1; the scenario reports 3 ahead
\* initially, 1 after filtering and probability 100.
C2_ReportedProbability ==
    pc = "done" =>
        /\ output_data.probabilitySingle
             = ClaimedProbability(available_singles, final_count + 1)
        /\ Scenario => /\ output_data.initialAhead = 3
                       /\ output_data.finalPositionEstimate = 1
                       /\ output_data.probabilitySingle = 100

\* C3 as stated: filtered-ahead <= initial-ahead and the two tallies sum
\* to initial-ahead - filtered-ahead, whatever the ranking.
C3_Conservation ==
    pc \in {"final", "done"} =>
        /\ final_count <= initial_count
        /\ total_removed = initial_count - final_count

\* no identity is on two of the records ahead of the target
AheadDistinct ==
    \A i, j \in 1..Len(people_ahead_initial) :
        (i # j /\ people_ahead_initial[i].PUID # "")
            => people_ahead_initial[i].PUID # people_ahead_initial[j].PUID

\* C3 amended: filtered-ahead <= initial-ahead and total removed <=
\* initial-ahead - filtered-ahead, with equality when no identity is on
\* more than one record ahead of the target.
C3_ConservationDistinct ==
    pc \in {"final", "done"} =>
        /\ final_count <= initial_count
        /\ total_removed <= initial_count - final_count
        /\ AheadDistinct => total_removed = initial_count - final_count

\* a finished run that removed for Spelman, removed for another college
\* and kept a record
C3_Witness ==
    /\ pc = "done"
    /\ removed_spelman_count >= 1
    /\ removed_res_college_count >= 1
    /\ final_count >= 1
    /\ AheadDistinct

\* the identities on the records the filter loop has gone through
SeenAhead ==
    {people_ahead_initial[i].PUID : i \in 1..filter_pos} \ {""}

\* C4: an identity in both claimant sets adds exactly one to the Spelman
\* tally and nothing to the other-college tally, and no record of it is in
\* the filtered list; every identity adds at most one to the two tallies.
C4_OneCategory ==
    /\ removed_spelman_count = Cardinality(SeenAhead \cap top_spelman_puids)
    /\ removed_res_college_count
         = Cardinality((SeenAhead \cap early_res_college_puids) \ top_spelman_puids)
    /\ \A k \in 1..Len(people_ahead_filtered) :
         people_ahead_filtered[k].PUID
            \notin (top_spelman_puids \cap early_res_college_puids)

\* a finished run with an identity of both claimant sets on two records
\* ahead of the target
C4_Witness ==
    /\ pc = "done"
    /\ \E i, j \in 1..Len(people_ahead_initial) :
         /\ i < j
         /\ people_ahead_initial[i].PUID = people_ahead_initial[j].PUID
         /\ people_ahead_initial[i].PUID
              \in (top_spelman_puids \cap early_res_college_puids)
    /\ removed_spelman_count = 1
    /\ removed_res_college_count = 0

\* some record of the primary ranking carries the typed first and last name
TargetPresent ==
    \E i \in 1..Len(upperclass_data.rows) :
        /\ Lower(upperclass_data.rows[i].FirstName) = Lower(user_first_name)
        /\ Lower(upperclass_data.rows[i].LastName) = Lower(user_last_name)

ResultBuilt == "puid" \in DOMAIN output_data

\* C5: when no record matches the typed name the run ends at the lookup:
\* no college is collected, nothing is filtered, no probability or result
\* is produced; a result exists only in runs that found the target.
C5_NotFoundStops ==
    /\ pc \in {"initial", "colleges", "filter", "final", "done"} => TargetPresent
    /\ pc = "exit_not_found" =>
         /\ ~TargetPresent
         /\ user_index = -1
         /\ early_res_college_puids = {} /\ pools_entered = 0
         /\ people_ahead_initial = <<>> /\ filter_pos = 0
         /\ probability_single = 0
         /\ ~ResultBuilt
    /\ ResultBuilt => (TargetPresent /\ pc = "done")

\* the lookup failed on a ranking that has the typed first name under
\* another last name
C5_Witness ==
    /\ pc = "exit_not_found"
    /\ \E i \in 1..Len(upperclass_data.rows) :
         Lower(upperclass_data.rows[i].FirstName) = Lower(user_first_name)

\* C6: a missing file or missing columns on the rooms or the Spelman source
\* never ends the run: the source counts as absent, capacity and available
\* singles are 0, nobody is removed for Spelman, and the run goes on.
C6_DegradedNotFatal ==
    /\ pc = "exit_1" => upperclass_file = None
    /\ (pc \notin {"find_files", "load", "exit_1", "exit_critical"}
          /\ ~rooms_data.loaded)
         => /\ spelman_capacity = 0
            /\ available_singles = 0
            /\ top_spelman_puids = {}
    /\ (pc \notin {"find_files", "load", "exit_1", "exit_critical"}
          /\ ~spelman_data.loaded)
         => /\ top_spelman_puids = {}
            /\ removed_spelman_count = 0

====
